---- MODULE Spec2Model ----
(***************************************************************************)
(* Model of TPP_TOF.cpp: the time-of-flight point-of-interest pipeline of  *)
(* the animatronic eyes firmware.  initTOF's calibration loop, the frame   *)
(* classifier processMeasuredData, the neighbourhood operators scoreZone   *)
(* and avgdistZone, the selection scan of getPOI and the debounce state    *)
(* machine of getPOITemporalFiltered.                                      *)
(***************************************************************************)
EXTENDS Integers, Sequences, FiniteSets

VARIABLES
    pc,                      \* where the program is: initTOF's stages, then the caller's polling loop
    calibration,             \* int32_t calibration[64]               (TPP_TOF.cpp:37)
    measurementData,         \* VL53L5CX_ResultsData measurementData  (TPP_TOF.cpp:28)
    gotSimilarFrames,        \* initTOF locals                         (TPP_TOF.cpp:95-98)
    frameCount,
    sumOfDistances,
    lastFrameSum,
    logged,                  \* messages written through theLogger by initTOF
    poi,                     \* the caller's pointOfInterest struct, *pPOI
    adjustedData,            \* getPOI's local int32_t adjustedData[imageResolution]
    waitingFirstDetection,   \* statics of getPOITemporalFiltered      (TPP_TOF.cpp:418-423)
    sequentialFramesWithHit,
    currentX,
    currentY,
    suppressedX,
    suppressedY,
    rawPOI,                  \* history: what getPOI returned in the latest cycle that had a new frame
    rawRun                   \* history: number of consecutive new frames with a raw detection

vars == <<pc, calibration, measurementData, gotSimilarFrames, frameCount,
          sumOfDistances, lastFrameSum, logged, poi, adjustedData,
          waitingFirstDetection, sequentialFramesWithHit, currentX, currentY,
          suppressedX, suppressedY, rawPOI, rawRun>>

debounceVars == <<waitingFirstDetection, sequentialFramesWithHit, currentX,
                  currentY, suppressedX, suppressedY>>

calibVars == <<gotSimilarFrames, frameCount, sumOfDistances, lastFrameSum, logged>>

-----------------------------------------------------------------------------
(* Bounds of the model *)

\* width of the sensor grid (the firmware asks the sensor for 8 x 8)
GridWidth == 3
\* polling stops feeding detections once the hit counter reaches this value
MaxHits == 3
\* number of foreground cells placed in a frame of the selection inputs
MaxTargets == 3
\* largest raw distance (mm) fed to the classifier
MaxReading == 2100

(* Program constants *)

NOISE_RANGE == 50
MAX_CALIBRATION == 2000
FRAMES_FOR_GOOD_HIT == 2
VALID_SCORE_MINIMUM == 3
SIMILAR_SUM_DELTA == 500
MAX_CALIBRATION_FRAMES == 500

imageWidth == GridWidth
imageResolution == imageWidth * imageWidth

Cells == 0 .. (imageResolution - 1)

abs(n) == IF n < 0 THEN -n ELSE n

\* the (int16_t) cast of line 194
Int16(v) == ((v + 32768) % 65536) - 32768

-----------------------------------------------------------------------------
(* processMeasuredData *)

processCellStrictNoise(statusCode, measuredData, calib) ==
    IF (statusCode # 5) /\ (statusCode # 9) /\ (statusCode # 6) THEN -1
    ELSE IF (measuredData = 0) \/ (measuredData > MAX_CALIBRATION) THEN -2
    ELSE IF (abs(measuredData - calib) < NOISE_RANGE) \/ (measuredData > calib) THEN -3
    ELSE Int16(measuredData)

\* the body of the loop over the cells: adjustedData[i] from target_status[i],
\* distance_mm[i] and calibration[i]
processCell(statusCode, measuredData, calib) ==
    IF (statusCode # 5) /\ (statusCode # 9) /\ (statusCode # 6) THEN -1
    ELSE IF (measuredData = 0) \/ (measuredData > MAX_CALIBRATION) THEN -2
    ELSE LET deltaDist == abs(measuredData - calib)
         IN  IF (deltaDist <= NOISE_RANGE) \/ (measuredData > calib) THEN -3
             ELSE Int16(measuredData)

processMeasuredData(md, calib) ==
    [i \in Cells |-> processCell(md.target_status[i], md.distance_mm[i], calib[i])]

-----------------------------------------------------------------------------
(* scoreZone, avgdistZone, validate *)

Offsets == (-1 .. 1) \X (-1 .. 1)

\* the cells the two nested loops over yIndex, xIndex visit and keep: those
\* inside the grid
zoneLocsWrapped(location) ==
    LET locYInit == location \div imageWidth
        locXInit == location % imageWidth
    IN  { (locYInit + o[2]) * imageWidth + (locXInit + o[1]) :
            o \in { q \in Offsets :
                      /\ (locYInit + q[2]) * imageWidth + (locXInit + q[1]) >= 0
                      /\ (locYInit + q[2]) * imageWidth + (locXInit + q[1]) < imageResolution } }

zoneLocs(location) ==
    LET locYInit == location \div imageWidth
        locXInit == location % imageWidth
    IN  { (locYInit + o[2]) * imageWidth + (locXInit + o[1]) :
            o \in { q \in Offsets :
                      /\ locXInit + q[1] >= 0
                      /\ locXInit + q[1] < imageWidth
                      /\ locYInit + q[2] >= 0
                      /\ locYInit + q[2] < imageWidth } }

scoreZone(location, dataArray) ==
    Cardinality({ loc \in zoneLocs(location) : dataArray[loc] > 0 })

RECURSIVE sumOver(_, _)
sumOver(S, arr) ==
    IF S = {} THEN 0
    ELSE LET loc == CHOOSE l \in S : TRUE
         IN  arr[loc] + sumOver(S \ {loc}, arr)

avgdistZone(location, distance) ==
    IF distance[location] > 0
    THEN LET valid     == { loc \in zoneLocs(location) : distance[loc] > 0 }
             totalDist == sumOver(valid, distance)
             numZones  == Cardinality(valid)
         IN  totalDist \div numZones
    ELSE distance[location]

validateLoose(score) == score >= VALID_SCORE_MINIMUM - 1

validate(score) == score >= VALID_SCORE_MINIMUM

-----------------------------------------------------------------------------
(* getPOI *)

resetPOIKeepsCell(p) ==
    [p EXCEPT !.gotNewSensorData = FALSE,
              !.hasDetection = FALSE,
              !.distanceMM = -1,
              !.detectedAtMS = -1,
              !.calibrationDistMM = -1]

\* lines 302-308: every field but surroundingHits is reset
resetPOI(p) ==
    [p EXCEPT !.gotNewSensorData = FALSE,
              !.hasDetection = FALSE,
              !.x = -255,
              !.y = -255,
              !.distanceMM = -1,
              !.detectedAtMS = -1,
              !.calibrationDistMM = -1]

closerOrEqual(dist, best) == dist <= best

\* line 361: replacement requires a strictly smaller distance
closerThan(dist, best) == dist < best

\* lines 342-375: the scan, y ascending then x ascending; zone k is (k % W, k \div W)
RECURSIVE scanZones(_, _, _, _, _)
scanZones(thisZone, p, adj, calib, now) ==
    IF thisZone >= imageResolution THEN p
    ELSE LET x == thisZone % imageWidth
             y == thisZone \div imageWidth
             avgDistThisZone == avgdistZone(thisZone, adj)
             score == scoreZone(thisZone, adj)
             hit == /\ adj[thisZone] > 0
                    /\ validate(score)
                    /\ adj[thisZone] < calib[thisZone]
                    /\ closerThan(adj[thisZone], p.distanceMM)
                    /\ avgDistThisZone > NOISE_RANGE
         IN  scanZones(thisZone + 1,
                       IF hit
                       THEN [p EXCEPT !.x = x,
                                      !.y = y,
                                      !.distanceMM = adj[thisZone],
                                      !.detectedAtMS = now,
                                      !.calibrationDistMM = calib[thisZone],
                                      !.hasDetection = TRUE,
                                      !.surroundingHits = score]
                       ELSE p,
                       adj, calib, now)

\* lines 328-375: what getPOI does with a frame it has read into measurementData
processFrame(p, md, calib, now) ==
    scanZones(0,
              [p EXCEPT !.gotNewSensorData = TRUE,
                        !.distanceMM = MAX_CALIBRATION + 1],
              processMeasuredData(md, calib), calib, now)

\* getPOI: gotFrame is isDataReady() && getRangingData(), md the frame then held
getPOI(p, gotFrame, md, calib, now) ==
    IF gotFrame THEN processFrame(resetPOI(p), md, calib, now)
    ELSE resetPOI(p)

-----------------------------------------------------------------------------
(* initTOF *)

RECURSIVE sumDistances(_, _)
\* lines 103-106: the sum of distance_mm[0 .. n-1]
sumDistances(n, dist) ==
    IF n <= 0 THEN 0 ELSE sumDistances(n - 1, dist) + dist[n - 1]

\* line 110
similarFrames(last, sum) == abs(last - sum) < SIMILAR_SUM_DELTA

\* line 120
outOfAttempts(count) == count > MAX_CALIBRATION_FRAMES

calibrationValueNoZeroFix(d) ==
    IF d > MAX_CALIBRATION THEN MAX_CALIBRATION ELSE d

\* lines 135-140
calibrationValue(d) ==
    IF (d = 0) \/ (d > MAX_CALIBRATION) THEN MAX_CALIBRATION ELSE d

-----------------------------------------------------------------------------
(* getPOITemporalFiltered *)

\* lines 456-457: the jitter distances are the literal 0, the subtraction is commented out
spatialDistX == 0
spatialDistY == 0

\* line 458
sameCell == (spatialDistX < 2) /\ (spatialDistY < 2)

enoughFramesAfterOne(frames) == frames >= FRAMES_FOR_GOOD_HIT - 1

\* line 469
enoughFrames(frames) == frames >= FRAMES_FOR_GOOD_HIT

lossKeepsTracking(waiting) == waiting

\* line 439: a new frame without a detection
afterLoss(waiting) == TRUE

\* lines 431-495: the statics and *pPOI after the filter has seen p, the POI
\* getPOI has just written.  st holds the six statics.
temporalFilter(st, p) ==
    IF ~p.gotNewSensorData THEN [st |-> st, poi |-> p]
    ELSE IF ~p.hasDetection
    THEN [st  |-> [st EXCEPT !.waitingFirstDetection = afterLoss(st.waitingFirstDetection)],
          poi |-> p]
    ELSE LET first == st.waitingFirstDetection
             s1 == IF first
                   THEN [st EXCEPT !.waitingFirstDetection = FALSE,
                                   !.sequentialFramesWithHit = 0,
                                   !.currentX = p.x,
                                   !.currentY = p.y,
                                   !.suppressedX = -1,
                                   !.suppressedY = -1]
                   ELSE st
             s2 == IF sameCell
                   THEN [s1 EXCEPT !.sequentialFramesWithHit = s1.sequentialFramesWithHit + 1]
                   ELSE [s1 EXCEPT !.sequentialFramesWithHit = 1,
                                   !.currentX = p.x,
                                   !.currentY = p.y]
             isPersistentDetection == enoughFrames(s2.sequentialFramesWithHit)
         IN  IF isPersistentDetection THEN [st |-> s2, poi |-> p]
             ELSE [st  |-> IF (s2.suppressedX # p.x) /\ (s2.suppressedY # p.y)
                           THEN [s2 EXCEPT !.suppressedX = p.x, !.suppressedY = p.y]
                           ELSE s2,
                   poi |-> [p EXCEPT !.hasDetection = FALSE]]

statics ==
    [waitingFirstDetection   |-> waitingFirstDetection,
     sequentialFramesWithHit |-> sequentialFramesWithHit,
     currentX                |-> currentX,
     currentY                |-> currentY,
     suppressedX             |-> suppressedX,
     suppressedY             |-> suppressedY]

-----------------------------------------------------------------------------
(* Inputs: what the sensor, the clock and the caller supply *)

Frame(dist, stat) == [distance_mm |-> dist, target_status |-> stat]

\* values of millis() at a detection
Millis == {1000, 1071}

\* the caller's struct before the first call is uninitialised; only
\* surroundingHits survives getPOI's reset
CallerPOI ==
    { [gotNewSensorData |-> FALSE, hasDetection |-> FALSE, x |-> 0, y |-> 0,
       distanceMM |-> 0, detectedAtMS |-> 0, calibrationDistMM |-> 0,
       surroundingHits |-> g] : g \in {0, 99} }

NoRawPOI ==
    [gotNewSensorData |-> FALSE, hasDetection |-> FALSE, x |-> -255, y |-> -255,
     distanceMM |-> -1, detectedAtMS |-> -1, calibrationDistMM |-> -1,
     surroundingHits |-> 0]

ZeroArray == [i \in Cells |-> 0]

\* an empty room: 1000 mm everywhere, no return (0) in the first cell and a
\* reading beyond the range in the last
RoomFrame ==
    Frame([i \in Cells |-> IF i = 0 THEN 0
                           ELSE IF i = imageResolution - 1 THEN 2500 ELSE 1000],
          [i \in Cells |-> 5])

\* the room with a 2 x 2 object at distance d whose upper left corner is (x0, y0)
BlobFrame(x0, y0, d) ==
    Frame([i \in Cells |->
              IF /\ i % imageWidth \in {x0, x0 + 1}
                 /\ i \div imageWidth \in {y0, y0 + 1}
              THEN d ELSE RoomFrame.distance_mm[i]],
          [i \in Cells |-> 5])

\* the room with a single near cell: a noise spike without neighbours
SpikeFrame ==
    Frame([i \in Cells |-> IF i = imageWidth + 1 THEN 300 ELSE RoomFrame.distance_mm[i]],
          [i \in Cells |-> 5])

\* nothing measured: every target invalid, distance 0
DarkFrame == Frame(ZeroArray, [i \in Cells |-> 255])

SensorFrames ==
    {RoomFrame, DarkFrame, SpikeFrame, BlobFrame(0, 0, 400), BlobFrame(1, 1, 400)}

-----------------------------------------------------------------------------
(* The firmware: initTOF, then the caller polls getPOITemporalFiltered *)

Init ==
    /\ pc = "begin"
    /\ calibration = ZeroArray
    /\ measurementData = Frame(ZeroArray, ZeroArray)
    /\ gotSimilarFrames = FALSE
    /\ frameCount = 0
    /\ sumOfDistances = 0
    /\ lastFrameSum = 0
    /\ logged = {}
    /\ poi \in CallerPOI
    /\ adjustedData = ZeroArray
    /\ waitingFirstDetection = TRUE
    /\ sequentialFramesWithHit = 0
    /\ currentX = -1
    /\ currentY = -1
    /\ suppressedX = -1
    /\ suppressedY = -1
    /\ rawPOI = NoRawPOI
    /\ rawRun = 0

\* lines 58-63: myImager.begin(); on failure initTOF never returns
Begin ==
    /\ pc = "begin"
    /\ \E found \in BOOLEAN : pc' = IF found THEN "waitReady" ELSE "frozen"
    /\ UNCHANGED <<calibration, measurementData, calibVars, poi, adjustedData,
                   debounceVars, rawPOI, rawRun>>

\* lines 87-90: poll until the first data is ready
WaitReady ==
    /\ pc = "waitReady"
    /\ \E ready \in BOOLEAN : pc' = IF ready THEN "calibrating" ELSE "waitReady"
    /\ UNCHANGED <<calibration, measurementData, calibVars, poi, adjustedData,
                   debounceVars, rawPOI, rawRun>>

\* lines 99-127: one pass of the do-while loop
CalibrationPass ==
    /\ pc = "calibrating"
    /\ \E ready \in BOOLEAN, readOk \in BOOLEAN, f \in SensorFrames :
         LET got     == ready /\ readOk
             count   == IF got THEN frameCount + 1 ELSE frameCount
             sum     == IF got THEN sumDistances(imageResolution, f.distance_mm)
                        ELSE sumOfDistances
             similar == got /\ similarFrames(lastFrameSum, sum)
             over    == outOfAttempts(count)
         IN  /\ measurementData' = IF got THEN f ELSE measurementData
             /\ frameCount' = count
             /\ sumOfDistances' = sum
             /\ lastFrameSum' = IF got /\ ~similar THEN sum ELSE lastFrameSum
             /\ gotSimilarFrames' = (similar \/ over)
             /\ logged' = logged \cup (IF similar THEN {"calibration done"} ELSE {})
                                 \cup (IF over THEN {"could not calibrate"} ELSE {})
             /\ pc' = IF similar \/ over THEN "store" ELSE "calibrating"
    /\ UNCHANGED <<calibration, poi, adjustedData, debounceVars, rawPOI, rawRun>>

\* lines 133-155: copy the last frame into calibration[] and return; the
\* locals of initTOF end with it
StoreCalibration ==
    /\ pc = "store"
    /\ calibration' = [i \in Cells |-> calibrationValue(measurementData.distance_mm[i])]
    /\ gotSimilarFrames' = FALSE
    /\ frameCount' = 0
    /\ sumOfDistances' = 0
    /\ lastFrameSum' = 0
    /\ pc' = "loop"
    /\ UNCHANGED <<measurementData, logged, poi, adjustedData, debounceVars,
                   rawPOI, rawRun>>

\* lines 416-496: one call of getPOITemporalFiltered(&poi) by the polling loop
GetPOITemporalFiltered ==
    /\ pc = "loop"
    /\ \E ready \in BOOLEAN, readOk \in BOOLEAN, f \in SensorFrames, now \in Millis :
         LET got == ready /\ readOk
             md  == IF got THEN f ELSE measurementData
             p   == getPOI(poi, got, md, calibration, now)
             r   == temporalFilter(statics, p)
         IN  /\ (got /\ p.hasDetection) =>
                  (IF waitingFirstDetection THEN 0 ELSE sequentialFramesWithHit) < MaxHits
             /\ measurementData' = md
             /\ adjustedData' = IF got THEN processMeasuredData(md, calibration)
                                ELSE adjustedData
             /\ poi' = r.poi
             /\ waitingFirstDetection' = r.st.waitingFirstDetection
             /\ sequentialFramesWithHit' = r.st.sequentialFramesWithHit
             /\ currentX' = r.st.currentX
             /\ currentY' = r.st.currentY
             /\ suppressedX' = r.st.suppressedX
             /\ suppressedY' = r.st.suppressedY
             /\ rawPOI' = IF got THEN p ELSE rawPOI
             /\ rawRun' = IF ~got THEN rawRun
                          ELSE IF p.hasDetection THEN rawRun + 1 ELSE 0
    /\ pc' = pc
    /\ UNCHANGED <<calibration, calibVars>>

Next == Begin \/ WaitReady \/ CalibrationPass \/ StoreCalibration \/ GetPOITemporalFiltered

Spec == Init /\ [][Next]_vars

-----------------------------------------------------------------------------
(* getPOI on one frame: the inputs are drawn, getPOI has reset *pPOI and     *)
(* read the frame into measurementData (line 326), and processes it          *)

\* lines 328-375
ProcessFrame ==
    /\ pc = "read"
    /\ \E now \in Millis : poi' = processFrame(poi, measurementData, calibration, now)
    /\ adjustedData' = processMeasuredData(measurementData, calibration)
    /\ rawPOI' = poi'
    /\ pc' = "done"
    /\ UNCHANGED <<calibration, measurementData, calibVars, debounceVars, rawRun>>

FrameInit ==
    /\ pc = "read"
    /\ gotSimilarFrames = FALSE
    /\ frameCount = 0
    /\ sumOfDistances = 0
    /\ lastFrameSum = 0
    /\ logged = {"calibration done"}
    /\ poi = resetPOI(NoRawPOI)
    /\ adjustedData = ZeroArray
    /\ waitingFirstDetection = TRUE
    /\ sequentialFramesWithHit = 0
    /\ currentX = -1
    /\ currentY = -1
    /\ suppressedX = -1
    /\ suppressedY = -1
    /\ rawPOI = NoRawPOI
    /\ rawRun = 0

(* Inputs of the selection: a calibrated background with a few foreground cells *)

\* a calibration with far and middle background cells and one near one
PoiCalibration ==
    [i \in Cells |-> IF i = 1 THEN 300 ELSE IF i % 2 = 0 THEN 2000 ELSE 1000]

TargetSets == { S \in SUBSET Cells : Cardinality(S) <= MaxTargets }

\* distances a foreground cell reads
TargetDistances == {30, 400}

\* three cells in the last corner of the grid, each next to the other two
CornerCluster ==
    {imageResolution - 1, imageResolution - 2, imageResolution - 1 - imageWidth}

\* every cell reads its calibration value, but the targets in S, which read t,
\* and, with cluster, the cells of CornerCluster, which read 700
PoiFrame(S, t, cluster) ==
    Frame([i \in Cells |-> IF i \in S THEN t[i]
                           ELSE IF cluster /\ i \in CornerCluster THEN 700
                           ELSE PoiCalibration[i]],
          [i \in Cells |-> 5])

PoiInit ==
    /\ FrameInit
    /\ calibration = PoiCalibration
    /\ \E S \in TargetSets : \E t \in [S -> TargetDistances] : \E cluster \in BOOLEAN :
         measurementData = PoiFrame(S, t, cluster)

SpecPOI == PoiInit /\ [][ProcessFrame]_vars

(* Inputs of the classifier: every status and distance against calibration  *)
(* values at and around the thresholds                                      *)

Statuses == {0, 4, 5, 6, 9, 10, 255}

CalibrationValues == <<1, 50, 51, 52, 1000, 1949, 1950, 1999, 2000>>

ClassifyCalibrations ==
    { [i \in Cells |-> CalibrationValues[((i + k) % Len(CalibrationValues)) + 1]] :
        k \in {0, 4} }

\* the same reading in every cell
UniformFrames ==
    { Frame([i \in Cells |-> d], [i \in Cells |-> s]) :
        d \in 0 .. MaxReading, s \in Statuses }

ClassifyInit ==
    /\ FrameInit
    /\ calibration \in ClassifyCalibrations
    /\ measurementData \in UniformFrames

SpecClassify == ClassifyInit /\ [][ProcessFrame]_vars

-----------------------------------------------------------------------------
(* Notions the properties are stated in, defined from the data alone *)

\* the 3 x 3 neighbourhood of cell i, the cell included, clipped at the edges
Neighbourhood(i) ==
    { j \in Cells : /\ abs((j % imageWidth) - (i % imageWidth)) <= 1
                    /\ abs((j \div imageWidth) - (i \div imageWidth)) <= 1 }

IsValid(i) == adjustedData[i] > 0

ValidNeighbours(i) == { j \in Neighbourhood(i) : IsValid(j) }

Support(i) == Cardinality(ValidNeighbours(i))

RECURSIVE Total(_)
Total(S) == IF S = {} THEN 0
            ELSE LET j == CHOOSE k \in S : TRUE
                 IN  adjustedData[j] + Total(S \ {j})

\* mean distance of the Valid cells around a Valid cell i
LocalAverage(i) == Total(ValidNeighbours(i)) \div Support(i)

\* every selection condition of a cell but the comparison with the best so far
Qualifies(i) ==
    /\ IsValid(i)
    /\ Support(i) >= 3
    /\ adjustedData[i] < calibration[i]
    /\ LocalAverage(i) > NOISE_RANGE

PoiCell == poi.y * imageWidth + poi.x

NewFrameCycle == pc = "loop" /\ poi'.gotNewSensorData

NoFrameCycle == pc = "loop" /\ ~poi'.gotNewSensorData

-----------------------------------------------------------------------------
(* C1: getPOITemporalFiltered reports hasDetection = true only if the       *)
(* previous new-frame cycle produced a raw detection at the same (x, y).    *)
(* The code increments the hit counter whatever the cell, so this fails.    *)
C1_ConfirmedOnlyAtSameCell ==
    [][ (NewFrameCycle /\ poi'.hasDetection)
          => /\ rawPOI.gotNewSensorData
             /\ rawPOI.hasDetection
             /\ rawPOI.x = poi'.x
             /\ rawPOI.y = poi'.y ]_vars

(* C2: a new frame without a raw detection puts the filter back to waiting  *)
(* for a first detection, and a detection is reported only once             *)
(* FRAMES_FOR_GOOD_HIT consecutive new frames have had a raw detection: the *)
(* first detection frame after a loss is suppressed.                        *)
C2_LossResetsDebounce ==
    pc = "loop" =>
        /\ (rawPOI.gotNewSensorData /\ ~rawPOI.hasDetection) => waitingFirstDetection
        /\ poi.hasDetection => rawRun >= FRAMES_FOR_GOOD_HIT
        /\ (poi.gotNewSensorData /\ rawRun = 1) => ~poi.hasDetection

\* a loss has been seen after a run of frames that had been confirmed
C2_Witness ==
    /\ pc = "loop"
    /\ poi.gotNewSensorData
    /\ ~rawPOI.hasDetection
    /\ rawRun = 0
    /\ waitingFirstDetection
    /\ sequentialFramesWithHit >= FRAMES_FOR_GOOD_HIT

(* C3 as claimed: a cycle without a new frame leaves the debounce state and *)
(* every field of the POI of the previous cycle unchanged.  Stated for the  *)
(* cycles that follow one whose frame had a raw detection.                  *)
C3_NoFrameKeepsOutput ==
    [][ (NoFrameCycle /\ poi.gotNewSensorData /\ rawPOI.hasDetection)
          => /\ UNCHANGED debounceVars
             /\ poi'.hasDetection = poi.hasDetection
             /\ poi'.x = poi.x
             /\ poi'.y = poi.y
             /\ poi'.distanceMM = poi.distanceMM
             /\ poi'.detectedAtMS = poi.detectedAtMS
             /\ poi'.calibrationDistMM = poi.calibrationDistMM
             /\ poi'.surroundingHits = poi.surroundingHits ]_vars

(* C3 amended: a cycle without a new frame leaves the debounce state        *)
(* unchanged and hands back the no-detection values getPOI resets the POI   *)
(* to; only surroundingHits keeps the value it had.                         *)
C3_NoFrameResetsOutput ==
    [][ NoFrameCycle
          => /\ UNCHANGED debounceVars
             /\ poi' = [gotNewSensorData |-> FALSE, hasDetection |-> FALSE,
                        x |-> -255, y |-> -255, distanceMM |-> -1,
                        detectedAtMS |-> -1, calibrationDistMM |-> -1,
                        surroundingHits |-> poi.surroundingHits] ]_vars

\* a cycle without a frame has followed a confirmed detection
C3_Witness ==
    /\ pc = "loop"
    /\ ~poi.gotNewSensorData
    /\ poi.x = -255
    /\ poi.surroundingHits >= VALID_SCORE_MINIMUM
    /\ rawPOI.hasDetection
    /\ ~waitingFirstDetection
    /\ sequentialFramesWithHit >= FRAMES_FOR_GOOD_HIT

(* C4: from WaitingForFirst, the first new frame with a raw detection is    *)
(* suppressed, and a second one at the same cell is handed back as getPOI   *)
(* produced it, with hasDetection = true.                                   *)
C4_SecondFrameConfirms ==
    [][ (NewFrameCycle /\ rawPOI'.hasDetection)
          => /\ waitingFirstDetection => ~poi'.hasDetection
             /\ ( /\ ~waitingFirstDetection
                  /\ rawRun = 1
                  /\ rawPOI.x = rawPOI'.x
                  /\ rawPOI.y = rawPOI'.y )
                => ( /\ poi'.hasDetection
                     /\ poi' = rawPOI' ) ]_vars

\* the second frame at the same cell has been confirmed
C4_Witness ==
    /\ pc = "loop"
    /\ rawRun = FRAMES_FOR_GOOD_HIT
    /\ sequentialFramesWithHit = FRAMES_FOR_GOOD_HIT
    /\ poi.hasDetection
    /\ poi = rawPOI
    /\ currentX = poi.x
    /\ currentY = poi.y

-----------------------------------------------------------------------------
(* C5: when getPOI has processed a frame in which no cell satisfies every   *)
(* selection condition, the POI has hasDetection = false, x = y = -255 and  *)
(* distanceMM = -1.  The code leaves distanceMM at MAX_CALIBRATION + 1.     *)
C5_NoDetectionSentinels ==
    (pc = "done" /\ ~(\E i \in Cells : Qualifies(i)))
        => /\ ~poi.hasDetection
           /\ poi.x = -255
           /\ poi.y = -255
           /\ poi.distanceMM = -1

(* C6: a POI with hasDetection = true lies at a cell whose support, the     *)
(* number of Valid cells of its clipped 3 x 3 neighbourhood, is at least 3, *)
(* and surroundingHits is that number.                                      *)
C6_SelectedCellSupported ==
    (pc = "done" /\ poi.hasDetection)
        => /\ PoiCell \in Cells
           /\ poi.x \in 0 .. (imageWidth - 1)
           /\ Support(PoiCell) >= 3
           /\ poi.surroundingHits = Support(PoiCell)

\* a nearer Valid cell with a good local average was passed over for its
\* support, and the selected cell sits on the edge of the grid
C6_Witness ==
    /\ pc = "done"
    /\ poi.hasDetection
    /\ poi.x = imageWidth - 1
    /\ \E i \in Cells : /\ IsValid(i)
                        /\ Support(i) < 3
                        /\ LocalAverage(i) > NOISE_RANGE
                        /\ adjustedData[i] < poi.distanceMM

-----------------------------------------------------------------------------
GoodStatus(s) == s \in {5, 6, 9}

-----------------------------------------------------------------------------
(* C9: once initTOF has stored the calibration, every cell holds a value in *)
(* 1 .. MAX_CALIBRATION: 2000 for a raw reading of 0 or above 2000, the raw *)
(* reading otherwise.  (Until the polling loop reads a frame,               *)
(* measurementData still holds the frame the calibration was taken from.)   *)
C9_CalibrationClamped ==
    pc = "loop" =>
        /\ \A i \in Cells : calibration[i] \in 1 .. MAX_CALIBRATION
        /\ ~rawPOI.gotNewSensorData =>
             \A i \in Cells :
                LET raw == measurementData.distance_mm[i]
                IN  calibration[i] = IF raw = 0 \/ raw > MAX_CALIBRATION
                                     THEN MAX_CALIBRATION ELSE raw

\* the attempt budget ran out, and the stored frame has a 0, a reading above
\* the maximum and one below it
C9_Witness ==
    /\ pc = "loop"
    /\ ~rawPOI.gotNewSensorData
    /\ "could not calibrate" \in logged
    /\ \E i \in Cells : measurementData.distance_mm[i] = 0 /\ calibration[i] = MAX_CALIBRATION
    /\ \E i \in Cells : /\ measurementData.distance_mm[i] > MAX_CALIBRATION
                        /\ calibration[i] = MAX_CALIBRATION
    /\ \E i \in Cells : /\ measurementData.distance_mm[i] < MAX_CALIBRATION
                        /\ calibration[i] = measurementData.distance_mm[i]
                        /\ calibration[i] > 0

(* C10: the calibration loop stops after at most 500 frames; when it has    *)
(* not converged by then the warning is logged and the calibration is       *)
(* stored all the same; and the warning is logged only when the loop did    *)
(* not converge.  The code reads a 501st frame, and logs the warning when   *)
(* that frame converges.                                                    *)
C10_StopsAt500WarnsOnlyUnconverged ==
    /\ frameCount <= MAX_CALIBRATION_FRAMES
    /\ pc \in {"store", "loop"} =>
         ("could not calibrate" \in logged <=> "calibration done" \notin logged)

(* C11: convergence is declared only on comparing the sums of two frames    *)
(* that were read: when the loop has declared the scene static, at least    *)
(* two frames have been read and the sums of the last two differ by less    *)
(* than 500 mm.  The code compares the first frame with lastFrameSum = 0,   *)
(* so a first frame whose sum is below 500 converges alone.                 *)
C11_ConvergenceComparesTwoFrames ==
    (pc = "store" /\ "calibration done" \in logged)
        => /\ frameCount >= 2
           /\ abs(lastFrameSum - sumOfDistances) < SIMILAR_SUM_DELTA
           /\ sumOfDistances = sumDistances(imageResolution, measurementData.distance_mm)

====
